---- MODULE Spec2Model ----
(***************************************************************************)
(* PharmaFlow-AI: model of classifyPatientRisk                             *)
(* (src/services/geminiService.ts), of the validation metrics of the       *)
(* results dashboard (src/components/AnalysisDashboard.tsx) and of the CSV *)
(* ingestion (src/components/FileUpload.tsx).  Each has its own            *)
(* specification: Spec, SpecDash, SpecUpload; SpecOps is the two other     *)
(* engine-backed operations, parseResearchIntent and queryAnalysisResults. *)
(*                                                                         *)
(* Numbers.  Scores are kept in thousandths (0.1 is 100, 0.7 is 700), the  *)
(* train/test ratio in percent (0.2 is 20).  An optional field of a        *)
(* PatientProfile is a sequence of length at most one: << >> is an unset   *)
(* (undefined) field, <<v>> a field holding v.  Optional string fields     *)
(* hold "unset" when absent.                                               *)
(*                                                                         *)
(* Math.random() is a stream of draws k / RandDen, k in 0 .. RandDen-1;    *)
(* the j-th draw of a run is Rand(seed, j), the seed unknown.              *)
(***************************************************************************)
EXTENDS Integers, Sequences, FiniteSets, Bags, TLC

(* ------------------------------ bounds --------------------------------- *)
\* longest subject list enumerated in full
MaxLen == 2
\* longest array of predictions the engine returns
MaxPreds == 2
\* resolution of the random source: draws are k / RandDen
RandDen == 4
\* longest subject list the dashboard is rendered with
MaxDash == 2
\* most columns of an uploaded header line built from HeaderNames
MaxCols == 2
\* most characters of the data lines of an uploaded file
MaxText == 4
\* longest subject list a question is asked about
MaxAsked == 2
\* longest of the short subject lists every slider position is tried with
MaxFill == 3

\* characters typed into a number field of the configurator
MaxDigits == 2

\* distinct data sets, and distinct mappings, a user supplies to the app
MaxInputs == 2

\* classifications the app awaits at one time
MaxPending == 2

(* -------------------------- program constants -------------------------- *)
batchSize == 30

(* ------------------------------ helpers -------------------------------- *)
Range(s) == {s[i] : i \in 1..Len(s)}

SeqsUpTo(S, n) == UNION {[1..k -> S] : k \in 0..n}

Min2(a, b) == IF a < b THEN a ELSE b

Max2(a, b) == IF a > b THEN a ELSE b

(* ------------------------------ the data ------------------------------- *)
\* a PatientProfile as FileUpload creates it: no post-inference field set
Subject(id, months) ==
  [id |-> id, monthsOnCurrentTherapy |-> months,
   riskScore |-> <<>>, riskCategory |-> "unset",
   split |-> "unset", actualOutcome |-> <<>>]

\* ineligible; eligible, at most lookbackMonths; eligible, above lookbackMonths
Subjects == {Subject("a", 0), Subject("a", 1), Subject("b", 7)}

Filler == Subject("f", 5)

\* lists longer than the batch: batchSize equal subjects and one more
BigInputs ==
  {[i \in 1..(batchSize + 1) |-> IF i <= batchSize THEN Filler ELSE s] :
     s \in {Subject("a", 7), Subject("b", 0)}}

Inputs == SeqsUpTo(Subjects, MaxLen) \cup BigInputs

\* the CohortConfig fields the function computes with: a lookback equal to
\* or above the months of an eligible subject, the default and the largest
\* test share of the slider
Configs ==
  {[lookbackMonths |-> 1, trainTestSplit |-> 20],
   [lookbackMonths |-> 6, trainTestSplit |-> 50]}

(* ----------------------- the reasoning engine -------------------------- *)
\* an element of the JSON array the engine returns
PredItem(id, score) == [isNull |-> FALSE, id |-> id, riskScore |-> score]

NullItem == [isNull |-> TRUE, id |-> "", riskScore |-> <<>>]

\* entries with a score on a category boundary, inside and outside [0, 1],
\* an entry without riskScore, and a null element
PredItems ==
  {PredItem("a", <<700>>), PredItem("a", <<1500>>), PredItem("a", <<>>),
   PredItem("f", <<900>>), NullItem}

\* what generateContent does: it throws, or it returns a text
Responses ==
  {[kind |-> k, items |-> <<>>] :
     k \in {"empty", "garbage", "null", "object", "scalar"}}
    \cup {[kind |-> "array", items |-> it] : it \in SeqsUpTo(PredItems, MaxPreds)}

Thrown == [kind |-> "throw", items |-> <<>>]

NoResponse == [kind |-> "none", items |-> <<>>]

(* ------------------------------- state --------------------------------- *)
VARIABLES
  pc,          \* "idle", "awaiting" (request in flight), "done"
  patients,    \* the caller's subject list
  config,      \* the CohortConfig
  shuffled,    \* line 76
  splitIndex,  \* line 77
  sent,        \* the feature tuples in the prompt, lines 121-128
  requests,    \* calls of ai.models.generateContent
  response,    \* what the engine did
  path,        \* "none", "try" (return of line 160), "catch" (line 196)
  result,      \* the resolved value of the promise
  dashPc,      \* AnalysisDashboard: "idle", "mounted", "rendered"
  dashPatients, \* its patients prop
  metrics,     \* its validationMetrics
  upPc,        \* FileUpload: "idle", "reading", "failed", "loaded"
  file,        \* the file handed to processFile
  upError,     \* its error state
  headers,     \* the header names of line 68
  columns,     \* the resolved column indices of lines 77-86
  loaded,      \* the argument of onDataLoaded
  loadedCalls, \* how often onDataLoaded was called
  intentPc,    \* parseResearchIntent: "idle", "done"
  intentResponse, \* what the engine did with its request
  ontology,    \* the value its promise resolved with
  qaPc,        \* queryAnalysisResults: "idle", "done", "rejected"
  qaPatients,  \* its patients argument
  qaResponse,  \* what the engine did with its request
  answer,      \* the value its promise resolved with
  avgMonths,   \* AnalysisDashboard: avgMonthsByRisk
  highShare,   \* its share of high-risk subjects, in percent
  formPc,        \* CohortConfigurator: where it stands
  formLookback,  \* its lookbackMonths
  formWindow,    \* its predictionWindowMonths
  formMinClaims, \* its minClaimsCount
  formSplit,     \* its trainTestSplit, in percent
  handedConfig,  \* the argument of onConfigReady
  currentStep, \* App: the step on screen
  appPatients, \* its patients state
  appOntology, \* its ontology state
  cohortConfig, \* its cohortConfig state
  pending      \* the classifyPatientRisk calls it is awaiting

classifyVars == <<pc, patients, config, shuffled, splitIndex, sent, requests,
                  response, path, result>>

dashVars == <<dashPc, dashPatients, metrics, avgMonths, highShare>>

uploadVars == <<upPc, file, upError, headers, columns, loaded, loadedCalls>>

opsVars == <<intentPc, intentResponse, ontology, qaPc, qaPatients, qaResponse, answer>>

formVars == <<formPc, formLookback, formWindow, formMinClaims, formSplit, handedConfig>>

appVars == <<currentStep, appPatients, appOntology, cohortConfig, pending>>

vars == <<classifyVars, dashVars, uploadVars, opsVars, formVars, appVars>>

(* ------------------- classifyPatientRisk: the pieces ------------------- *)
\* a filter that keeps every subject
\* eligibility asks for more than one month
EligibleStrict(ps) == SelectSeq(ps, LAMBDA p : p.monthsOnCurrentTherapy > 1)

EligibleAll(ps) == SelectSeq(ps, LAMBDA p : p.monthsOnCurrentTherapy >= 0)

\* line 73: patients.filter(p => p.monthsOnCurrentTherapy >= 1)
Eligible(ps) == SelectSeq(ps, LAMBDA p : p.monthsOnCurrentTherapy >= 1)

RemoveAt(s, i) == SubSeq(s, 1, i - 1) \o SubSeq(s, i + 1, Len(s))

FirstIdx(s, x) == CHOOSE i \in 1..Len(s) : s[i] = x /\ \A j \in 1..(i - 1) : s[j] /= x

\* line 76: [...eligible].sort(() => 0.5 - Math.random()); the comparator is
\* inconsistent, so the outcome is any rearrangement of the elements
RECURSIVE Shuffles(_)
Shuffles(s) ==
  IF s = <<>> THEN {<<>>}
  ELSE UNION {{<<x>> \o t : t \in Shuffles(RemoveAt(s, FirstIdx(s, x)))} :
                x \in Range(s)}

\* the split taken at the test share instead of the train share
\* Math.round in the place of Math.floor
SplitIndexRounded(n, cfg) == (n * (100 - cfg.trainTestSplit) + 50) \div 100

SplitIndexTestShare(n, cfg) == (n * cfg.trainTestSplit) \div 100

\* line 77: Math.floor(shuffled.length * (1 - config.trainTestSplit)); for
\* the lengths of this model the double-precision product has the same floor
SplitIndex(n, cfg) == (n * (100 - cfg.trainTestSplit)) \div 100

\* the whole shuffled list put into the prompt
ProcessedBatchUncapped(sh) == sh

\* lines 82-83: shuffled.slice(0, batchSize)
ProcessedBatch(sh) == SubSeq(sh, 1, Min2(batchSize, Len(sh)))

\* lines 121-128: the feature tuple of one batch subject (the fields that
\* are constant in this model are left out)
Features(batch) ==
  [i \in 1..Len(batch) |->
     [id |-> batch[i].id, monthsOnTherapy |-> batch[i].monthsOnCurrentTherapy]]

\* an empty text treated as a failure, as parseResearchIntent does
ParsePredictionsEmptyThrows(resp) ==
  CASE resp.kind = "array" -> [ok |-> TRUE, isArray |-> TRUE, items |-> resp.items]
    [] resp.kind \in {"empty", "garbage"} -> [ok |-> FALSE, isArray |-> FALSE, items |-> <<>>]
    [] OTHER -> [ok |-> TRUE, isArray |-> FALSE, items |-> <<>>]

\* line 157: response.text ? JSON.parse(response.text) : []
\* ok = FALSE: JSON.parse throws; isArray = FALSE: the value has no find()
ParsePredictions(resp) ==
  CASE resp.kind = "empty"   -> [ok |-> TRUE, isArray |-> TRUE, items |-> <<>>]
    [] resp.kind = "garbage" -> [ok |-> FALSE, isArray |-> FALSE, items |-> <<>>]
    [] resp.kind = "array"   -> [ok |-> TRUE, isArray |-> TRUE, items |-> resp.items]
    [] OTHER                 -> [ok |-> TRUE, isArray |-> FALSE, items |-> <<>>]

\* line 164: predictions.find(item => item.id === p.id); reading item.id of
\* a null element throws a TypeError
RECURSIVE FindPred(_, _, _)
FindPred(items, id, j) ==
  IF j > Len(items) THEN [st |-> "none", riskScore |-> <<>>]
  ELSE IF items[j].isNull THEN [st |-> "throw", riskScore |-> <<>>]
  ELSE IF items[j].id = id THEN [st |-> "found", riskScore |-> items[j].riskScore]
  ELSE FindPred(items, id, j + 1)

\* the j-th value of Math.random() in this run, as a numerator over RandDen
Rand(seed, j) == (seed + j) % RandDen

\* the simulation starts from a base risk of 0.7 for the longer therapies
PartialFallbackHighBase(p, cfg, r) ==
  LET baseRisk == IF p.monthsOnCurrentTherapy > cfg.lookbackMonths THEN 700 ELSE 50
      noise    == (r * 300) \div RandDen - 150
  IN  Min2(990, Max2(10, baseRisk + noise))

\* the lookback compared inclusively
PartialFallbackInclusive(p, cfg, r) ==
  LET baseRisk == IF p.monthsOnCurrentTherapy >= cfg.lookbackMonths THEN 400 ELSE 50
      noise    == (r * 300) \div RandDen - 150
  IN  Min2(990, Max2(10, baseRisk + noise))

\* lines 171-172: baseRisk + (Math.random() * 0.3 - 0.15), clamped
PartialFallback(p, cfg, r) ==
  LET baseRisk == IF p.monthsOnCurrentTherapy > cfg.lookbackMonths THEN 400 ELSE 50
      noise    == (r * 300) \div RandDen - 150
  IN  Min2(990, Max2(10, baseRisk + noise))

\* the High threshold taken inclusively
CategoryInclusive(score) ==
  IF score /= <<>> /\ score[1] >= 700 THEN "High"
  ELSE IF score /= <<>> /\ score[1] > 400 THEN "Medium"
  ELSE "Low"

\* lines 175-177; a comparison with undefined is false
Category(score) ==
  IF score /= <<>> /\ score[1] > 700 THEN "High"
  ELSE IF score /= <<>> /\ score[1] > 400 THEN "Medium"
  ELSE "Low"

\* the draw compared the other way round
ActualOutcomeReversed(score, r) == score /= <<>> /\ r * 1000 > score[1] * RandDen

\* line 183: Math.random() < score
ActualOutcome(score, r) == score /= <<>> /\ r * 1000 < score[1] * RandDen

\* line 162
SplitOf(index, sIdx) == IF index < sIdx THEN "TRAIN" ELSE "TEST"

\* lines 160-192: the callback of shuffled.map for the positions i .. N;
\* d is the number of Math.random() values drawn before position i
RECURSIVE MapShuffled(_, _, _, _, _, _, _)
MapShuffled(sh, items, cfg, sIdx, seed, i, d) ==
  IF i > Len(sh) THEN <<>>
  ELSE LET p     == sh[i]
           pred  == FindPred(items, p.id, 1)
           score == IF pred.st = "found" THEN pred.riskScore
                    ELSE <<PartialFallback(p, cfg, Rand(seed, d))>>
           d1    == IF pred.st = "found" THEN d ELSE d + 1
           rec   == [p EXCEPT !.riskScore = score,
                              !.riskCategory = Category(score),
                              !.split = SplitOf(i - 1, sIdx),
                              !.actualOutcome = <<ActualOutcome(score, Rand(seed, d1))>>]
       IN  <<rec>> \o MapShuffled(sh, items, cfg, sIdx, seed, i + 1, d1 + 1)

\* the try block throws: JSON.parse does, or the map callback does
TryThrows(sh, parsed) ==
  \/ ~parsed.ok
  \/ /\ Len(sh) > 0
     /\ \/ ~parsed.isArray
        \/ \E i \in 1..Len(sh) : FindPred(parsed.items, sh[i].id, 1).st = "throw"

\* a fallback over the eligible subjects only
TotalFallbackEligibleOnly(ps) ==
  LET el == SelectSeq(ps, LAMBDA p : p.monthsOnCurrentTherapy >= 1)
  IN  [i \in 1..Len(el) |->
         [el[i] EXCEPT !.riskScore = <<100>>, !.riskCategory = "Low", !.split = "TRAIN"]]

\* the catch block labels its records TEST
TotalFallbackAsTest(ps) ==
  [i \in 1..Len(ps) |->
     [ps[i] EXCEPT !.riskScore = <<100>>, !.riskCategory = "Low", !.split = "TEST"]]

\* the catch block never returns an empty list
TotalFallbackNeverEmpty(ps) ==
  IF ps = <<>>
  THEN <<[Filler EXCEPT !.riskScore = <<100>>, !.riskCategory = "Low", !.split = "TRAIN"]>>
  ELSE [i \in 1..Len(ps) |->
          [ps[i] EXCEPT !.riskScore = <<100>>, !.riskCategory = "Low", !.split = "TRAIN"]]

\* line 196: the catch block
TotalFallback(ps) ==
  [i \in 1..Len(ps) |->
     [ps[i] EXCEPT !.riskScore = <<100>>, !.riskCategory = "Low", !.split = "TRAIN"]]

\* the sort rearranges the caller's array
CallerPatientsSortedInPlace(ps, sh) == sh

\* lines 73-76: filter returns a new array and the sort acts on the spread
\* copy of it, so the caller's array is what it was
CallerPatients(ps, sh) == ps

\* line 138: the one ai.models.generateContent call of the function
GenerateContentCalls(n) == n + 1

\* the catch block calls the engine again
CallsOnCatchRetry(n) == n + 1

\* lines 194-197: the catch block logs and returns, it sends nothing
CallsOnCatch(n) == n

(* --------------- AnalysisDashboard: validationMetrics ------------------ *)
\* a ratio of two counts, kept exact
Frac(n, d) == [num |-> n, den |-> d]

Zero == Frac(0, 1)

ZeroMetrics ==
  [accuracy |-> Zero, precision |-> Zero, recall |-> Zero,
   tp |-> 0, fp |-> 0, tn |-> 0, fn |-> 0]

\* line 40: patients.filter(p => p.split === 'TEST')
TestSet(ps) == SelectSeq(ps, LAMBDA p : p.split = "TEST")

\* the threshold taken inclusively
PredictedInclusive(p) == p.riskScore /= <<>> /\ p.riskScore[1] >= 500

\* line 68: (p.riskScore || 0) > threshold, threshold 0.5 (line 65)
Predicted(p) == p.riskScore /= <<>> /\ p.riskScore[1] > 500

\* line 69: p.actualOutcome || false
Actual(p) == p.actualOutcome = <<TRUE>>

\* lines 67-75: the four counters after the forEach
Confusion(ts, predicted, actual) ==
  Cardinality({i \in 1..Len(ts) : Predicted(ts[i]) = predicted /\ Actual(ts[i]) = actual})

\* precision and recall divided without the guards
ValidationMetricsUnguarded(ps) ==
  LET ts == TestSet(ps)
      tp == Confusion(ts, TRUE, TRUE)
      fp == Confusion(ts, TRUE, FALSE)
      fn == Confusion(ts, FALSE, TRUE)
      tn == Confusion(ts, FALSE, FALSE)
  IN  IF Len(ts) = 0 THEN ZeroMetrics
      ELSE [accuracy  |-> Frac(tp + tn, Len(ts)),
            precision |-> Frac(tp, tp + fp),
            recall    |-> Frac(tp, tp + fn),
            tp |-> tp, fp |-> fp, tn |-> tn, fn |-> fn]

\* lines 61-82
ValidationMetrics(ps) ==
  LET ts == TestSet(ps)
      tp == Confusion(ts, TRUE, TRUE)
      fp == Confusion(ts, TRUE, FALSE)
      fn == Confusion(ts, FALSE, TRUE)
      tn == Confusion(ts, FALSE, FALSE)
  IN  IF Len(ts) = 0 THEN ZeroMetrics
      ELSE [accuracy  |-> Frac(tp + tn, Len(ts)),
            precision |-> IF tp + fp > 0 THEN Frac(tp, tp + fp) ELSE Zero,
            recall    |-> IF tp + fn > 0 THEN Frac(tp, tp + fn) ELSE Zero,
            tp |-> tp, fp |-> fp, tn |-> tn, fn |-> fn]

\* lines 44-46: patients.filter(p => p.riskCategory === ...)
Bucket(ps, category) == SelectSeq(ps, LAMBDA p : p.riskCategory = category)

\* lines 55-57: reduce((acc, p) => acc + p.monthsOnCurrentTherapy, 0)
RECURSIVE SumMonths(_)
SumMonths(ps) ==
  IF ps = <<>> THEN 0 ELSE ps[1].monthsOnCurrentTherapy + SumMonths(Tail(ps))

\* lines 55-57: the sum divided by (length || 1)
AvgMonths(bucket) ==
  Frac(SumMonths(bucket), IF Len(bucket) = 0 THEN 1 ELSE Len(bucket))

\* lines 54-58
AvgMonthsByRisk(ps) ==
  [c \in {"High", "Medium", "Low"} |-> AvgMonths(Bucket(ps, c))]

\* line 216: (highRisk.length / patients.length) * 100, the division as
\* written; a ratio with den = 0 is the NaN or Infinity of JavaScript
HighRiskShare(ps) == Frac(Len(Bucket(ps, "High")) * 100, Len(ps))

\* a subject as classifyPatientRisk returns it
Scored(split, score, outcome) ==
  [Subject("a", 5) EXCEPT !.riskScore = score, !.riskCategory = Category(score),
                          !.split = split, !.actualOutcome = outcome]

\* TEST records on both sides of the threshold and on it, one whose engine
\* entry had no riskScore, and TRAIN records of either path
ScoredSubjects ==
  {Scored("TEST", <<s>>, <<o>>) : s \in {300, 500, 800}, o \in BOOLEAN}
    \cup {Scored("TEST", <<>>, <<FALSE>>),
          Scored("TRAIN", <<800>>, <<TRUE>>),
          Scored("TRAIN", <<100>>, <<>>)}

\* TEST = {(0.8, true), (0.3, false), (0.9, false), (0.2, true)}
ExampleTest ==
  <<Scored("TEST", <<800>>, <<TRUE>>), Scored("TEST", <<300>>, <<FALSE>>),
    Scored("TEST", <<900>>, <<FALSE>>), Scored("TEST", <<200>>, <<TRUE>>)>>

DashInputs == SeqsUpTo(ScoredSubjects, MaxDash) \cup {ExampleTest}

(* --------------------- FileUpload: CSV ingestion ----------------------- *)
\* Strings are sequences of one-character strings.
Uppers ==
  <<"A", "B", "C", "D", "E", "F", "G", "H", "I", "J", "K", "L", "M",
    "N", "O", "P", "Q", "R", "S", "T", "U", "V", "W", "X", "Y", "Z">>

Lowers ==
  <<"a", "b", "c", "d", "e", "f", "g", "h", "i", "j", "k", "l", "m",
    "n", "o", "p", "q", "r", "s", "t", "u", "v", "w", "x", "y", "z">>

DigitChars == <<"0", "1", "2", "3", "4", "5", "6", "7", "8", "9">>

SetMin(S) == CHOOSE x \in S : \A y \in S : x <= y

SetMax(S) == CHOOSE x \in S : \A y \in S : x >= y

\* String.prototype.toLowerCase, one character
ToLower(c) ==
  IF \E k \in 1..26 : Uppers[k] = c
  THEN Lowers[CHOOSE k \in 1..26 : Uppers[k] = c]
  ELSE c

ToLowerCase(s) == [i \in 1..Len(s) |-> ToLower(s[i])]

\* the byte-order mark U+FEFF, written as one character
BOM == "BOM"

\* the characters String.prototype.trim removes
IsSpace(c) == c \in {" ", "\t", "\r", "\n", BOM}

\* String.prototype.trim
Trim(s) ==
  LET keep == {i \in 1..Len(s) : ~IsSpace(s[i])}
  IN  IF keep = {} THEN <<>> ELSE SubSeq(s, SetMin(keep), SetMax(keep))

\* [a-z0-9]
IsAlnum(c) == c \in Range(Lowers) \cup Range(DigitChars)

\* line 26: h.toLowerCase().trim().replace(/[^a-z0-9]/g, '')
Normalize(h) == SelectSeq(Trim(ToLowerCase(h)), IsAlnum)

\* the pieces of s between the separator positions seps
RECURSIVE SplitAt(_, _)
SplitAt(s, seps) ==
  IF seps = {} THEN <<s>>
  ELSE LET i == SetMin(seps)
       IN  <<SubSeq(s, 1, i - 1)>>
             \o SplitAt(SubSeq(s, i + 1, Len(s)), {j - i : j \in seps \ {i}})

\* String.prototype.split with a one-character separator
Split(s, c) == SplitAt(s, {i \in 1..Len(s) : s[i] = c})

\* Array.prototype.join with a one-character separator
RECURSIVE Join(_, _)
Join(ss, c) ==
  IF ss = <<>> THEN <<>>
  ELSE IF Len(ss) = 1 THEN ss[1]
  ELSE ss[1] \o <<c>> \o Join(Tail(ss), c)

\* line 30: h === keyword
IsExact(h, k) == h = k

\* line 36: h.startsWith(keyword)
StartsWith(h, k) == Len(h) >= Len(k) /\ SubSeq(h, 1, Len(k)) = k

\* line 42: h.includes(keyword)
Includes(h, k) ==
  \E j \in 0..(Len(h) - Len(k)) : SubSeq(h, j + 1, j + Len(k)) = k

\* the test of the first, second and third loop of findColumnIndex
Matches(tier, h, k) ==
  CASE tier = 1 -> IsExact(h, k)
    [] tier = 2 -> StartsWith(h, k)
    [] tier = 3 -> Includes(h, k)

\* one loop of findColumnIndex: the first keyword, in order, that some header
\* matches, and for it the first such header (findIndex); -1 without a match
TierIndex(lh, kws, tier) ==
  LET hits == {k \in 1..Len(kws) : \E i \in 1..Len(lh) : Matches(tier, lh[i], kws[k])}
  IN  IF hits = {} THEN -1
      ELSE LET k == SetMin(hits)
           IN  SetMin({i \in 1..Len(lh) : Matches(tier, lh[i], kws[k])}) - 1

\* the three matches tried keyword by keyword instead of tier by tier
FindColumnIndexKeywordMajor(hdrs, kws) ==
  LET lh == [i \in 1..Len(hdrs) |-> Normalize(hdrs[i])]
  IN  TierIndex(lh, kws, 3)

\* lines 25-47, indices counted from 0
FindColumnIndex(hdrs, kws) ==
  LET lh == [i \in 1..Len(hdrs) |-> Normalize(hdrs[i])]
      exact == TierIndex(lh, kws, 1)
      starts == TierIndex(lh, kws, 2)
      contains == TierIndex(lh, kws, 3)
  IN  IF exact /= -1 THEN exact
      ELSE IF starts /= -1 THEN starts
      ELSE contains

\* src/types.ts lines 146-153: the default columnKeywords
ColumnKeywords ==
  [id |->
     <<<<"p", "a", "t", "i", "e", "n", "t">>,
       <<"m", "e", "m", "b", "e", "r">>,
       <<"s", "u", "b", "j", "e", "c", "t">>,
       <<"b", "e", "n", "e">>,
       <<"s", "u", "b", "s", "c", "r", "i", "b", "e", "r">>,
       <<"m", "r", "n">>,
       <<"i", "d">>,
       <<"p", "i", "d">>,
       <<"p", "a", "t">>>>,
   diagnosis |->
     <<<<"d", "i", "a", "g", "n", "o", "s", "i", "s">>,
       <<"d", "x">>,
       <<"i", "c", "d">>,
       <<"d", "i", "a", "g">>,
       <<"c", "o", "n", "d", "i", "t", "i", "o", "n">>,
       <<"p", "r", "o", "b", "l", "e", "m">>>>,
   prescription |->
     <<<<"d", "r", "u", "g">>,
       <<"r", "x">>,
       <<"n", "d", "c">>,
       <<"m", "e", "d", "i", "c", "a", "t", "i", "o", "n">>,
       <<"p", "r", "o", "d", "u", "c", "t">>,
       <<"p", "h", "a", "r", "m", "a", "c", "y">>>>,
   procedure |->
     <<<<"c", "p", "t">>,
       <<"h", "c", "p", "c", "s">>,
       <<"p", "r", "o", "c", "e", "d", "u", "r", "e">>,
       <<"p", "r", "o", "c">>,
       <<"p", "x">>,
       <<"s", "e", "r", "v", "i", "c", "e">>,
       <<"c", "o", "d", "e">>>>,
   date |->
     <<<<"d", "a", "t", "e">>,
       <<"d", "o", "s">>,
       <<"t", "i", "m", "e">>,
       <<"d", "a", "y">>,
       <<"d", "t">>,
       <<"s", "e", "r", "v", "i", "c", "e">>,
       <<"a", "d", "m", "i", "t">>>>]

\* the procedure keywords consulted first
DrugIndexProcedureFirst(hdrs, kw) ==
  LET px == FindColumnIndex(hdrs, kw.procedure)
  IN  IF px = -1 THEN FindColumnIndex(hdrs, kw.prescription) ELSE px

\* lines 80-84: prescription first, procedure as the fallback
DrugIndex(hdrs, kw) ==
  LET rx == FindColumnIndex(hdrs, kw.prescription)
  IN  IF rx = -1 THEN FindColumnIndex(hdrs, kw.procedure) ELSE rx

\* lines 77-86
ResolveColumns(hdrs, kw) ==
  [id |-> FindColumnIndex(hdrs, kw.id),
   dx |-> FindColumnIndex(hdrs, kw.diagnosis),
   rx |-> DrugIndex(hdrs, kw),
   date |-> FindColumnIndex(hdrs, kw.date)]

\* Array.prototype.slice(0, 3)
FirstThree(kws) == SubSeq(kws, 1, Min2(3, Len(kws)))

\* line 103: a comma separates when an even number of quotes follows it
CsvSeparators(line) ==
  {i \in 1..Len(line) :
     /\ line[i] = ","
     /\ Cardinality({j \in (i + 1)..Len(line) : line[j] = "\""}) % 2 = 0}

\* line 103: replace(/^"|"$/g, '')
StripQuotes(v) ==
  LET a == IF v /= <<>> /\ v[1] = "\"" THEN Tail(v) ELSE v
  IN  IF a /= <<>> /\ a[Len(a)] = "\"" THEN SubSeq(a, 1, Len(a) - 1) ELSE a

\* line 103
Values(line) ==
  LET pieces == SplitAt(line, CsvSeparators(line))
  IN  [i \in 1..Len(pieces) |-> StripQuotes(Trim(pieces[i]))]

\* the decimal digits of n
RECURSIVE Digits(_)
Digits(n) ==
  IF n < 10 THEN <<DigitChars[n + 1]>>
  ELSE Digits(n \div 10) \o <<DigitChars[(n % 10) + 1]>>

\* line 109: `P-${1000 + i}`
Placeholder(i) == <<"P", "-">> \o Digits(1000 + i)

Unknown == <<"Unknown">>

\* line 112: new Date().toISOString(), the time of the run
Now == <<"now">>

\* a || b on strings
OrElse(v, d) == IF v = <<>> THEN d ELSE v

\* line 105
MaxIdx(cols) == Max2(Max2(cols.id, cols.dx), Max2(cols.rx, cols.date))

\* a row is kept when it has at least one field
RowOfLineAnyLength(line, i, cols) ==
  LET values == Values(line)
      At(c) == IF c + 1 <= Len(values) THEN values[c + 1] ELSE <<>>
  IN  IF Len(values) < 1 THEN <<>>
      ELSE <<[id |-> OrElse(At(cols.id), Placeholder(i)),
              diagnosisCode |-> OrElse(At(cols.dx), Unknown),
              drugId |-> OrElse(At(cols.rx), Unknown),
              lastVisitDate |-> OrElse(At(cols.date), Now)]>>

\* lines 102-123: the record of one row, <<>> for null.  The fields the
\* code fills with constants or random numbers (age, gender, therapy line,
\* months on therapy, provider) are left out.
RowOfLine(line, i, cols) ==
  LET values == Values(line)
  IN  IF Len(values) <= MaxIdx(cols) THEN <<>>
      ELSE <<[id |-> OrElse(values[cols.id + 1], Placeholder(i)),
              diagnosisCode |-> OrElse(values[cols.dx + 1], Unknown),
              drugId |-> OrElse(values[cols.rx + 1], Unknown),
              lastVisitDate |-> OrElse(values[cols.date + 1], Now)]>>

\* lines 100-101: lines.slice(1).filter(l => l.trim())
DataLines(lines) == SelectSeq(Tail(lines), LAMBDA l : Trim(l) /= <<>>)

\* lines 102-124: map with the index i counted from 0, then the null filter
RECURSIVE ParseRows(_, _, _)
ParseRows(rows, i, cols) ==
  IF i >= Len(rows) THEN <<>>
  ELSE RowOfLine(rows[i + 1], i, cols) \o ParseRows(rows, i + 1, cols)

\* only the first unresolved field is reported
MissingFirstOnly(cols, kw) ==
  IF cols.id = -1 THEN <<[field |-> "Patient ID", keywords |-> FirstThree(kw.id)]>>
  ELSE IF cols.dx = -1 THEN <<[field |-> "Diagnosis", keywords |-> FirstThree(kw.diagnosis)]>>
  ELSE IF cols.rx = -1 THEN <<[field |-> "Drug/Procedure", keywords |-> FirstThree(kw.prescription)]>>
  ELSE IF cols.date = -1 THEN <<[field |-> "Date", keywords |-> FirstThree(kw.date)]>>
  ELSE <<>>

\* lines 88-92
Missing(cols, kw) ==
  (IF cols.id = -1
   THEN <<[field |-> "Patient ID", keywords |-> FirstThree(kw.id)]>> ELSE <<>>)
  \o (IF cols.dx = -1
      THEN <<[field |-> "Diagnosis", keywords |-> FirstThree(kw.diagnosis)]>> ELSE <<>>)
  \o (IF cols.rx = -1
      THEN <<[field |-> "Drug/Procedure", keywords |-> FirstThree(kw.prescription)]>> ELSE <<>>)
  \o (IF cols.date = -1
      THEN <<[field |-> "Date", keywords |-> FirstThree(kw.date)]>> ELSE <<>>)

NoError == [kind |-> "none", missing |-> <<>>]

UploadError(kind, missing) == [kind |-> kind, missing |-> missing]

NoColumns == [id |-> -1, dx |-> -1, rx |-> -1, date |-> -1]

\* header names of uploaded files
HeaderNames ==
  {<<"P", "a", "t", "i", "e", "n", "t", "_", "I", "D">>,
   <<"I", "C", "D", "1", "0">>,
   <<"N", "D", "C">>,
   <<"D", "O", "S">>,
   <<"I", "D">>,
   <<"P", "a", "t", "i", "e", "n", "t", "_", "N", "a", "m", "e">>,
   <<"C", "P", "T">>,
   <<"M", "y", "_", "R", "x">>,
   <<"S", "e", "r", "v", "i", "c", "e", "_", "D", "x">>,
   <<"P", "a", "t", "i", "e", "n", "t", "_", "S", "e", "r", "v", "i", "c", "e", "_", "D", "x">>,
   <<"N", "o", "t", "e", "s">>}

\* the headers of the schema-inference example
ExampleHeaders ==
  <<<<"P", "a", "t", "i", "e", "n", "t", "_", "I", "D">>,
    <<"I", "C", "D", "1", "0">>,
    <<"N", "D", "C">>,
    <<"D", "O", "S">>>>

HeaderLists == SeqsUpTo(HeaderNames, MaxCols) \cup {ExampleHeaders}

\* header lines all four fields resolve in, with highest index 1 and 0
RowHeaders ==
  {<<<<"P", "a", "t", "i", "e", "n", "t", "_", "I", "D">>,
     <<"S", "e", "r", "v", "i", "c", "e", "_", "D", "x">>>>,
   <<<<"P", "a", "t", "i", "e", "n", "t", "_", "S", "e", "r", "v", "i", "c", "e", "_", "D", "x">>>>}

\* the characters of the data lines
Tokens == {"a", ",", "\"", " ", "\n"}

Bodies == SeqsUpTo(Tokens, MaxText)

FewBodies == {<<>>, <<"a", ",", "a">>}

CsvFile(text) == [csv |-> TRUE, text |-> text]

Files ==
  {CsvFile(Join(h, ",") \o <<"\n">> \o b) : h \in HeaderLists, b \in FewBodies}
    \cup {CsvFile(Join(h, ",") \o <<"\n">> \o b) : h \in RowHeaders, b \in Bodies}
    \cup {CsvFile(Join(ExampleHeaders, ",")),
          CsvFile(<<BOM>> \o Join(ExampleHeaders, ",") \o <<"\r", "\n", "a", ",", "a", ",", "a", ",", "a", "\r">>),
          [csv |-> FALSE, text |-> Join(ExampleHeaders, ",") \o <<"\n">>]}

(* -------- parseResearchIntent and queryAnalysisResults ----------------- *)
\* a value JSON.parse returns where an OntologyMapping is expected; a
\* property that is absent is <<>>, one that is present <<v>>
JsonValue(kind, diseaseName, codes, transition) ==
  [json |-> kind, diseaseName |-> diseaseName, icdCodes |-> codes,
   cptCodes |-> codes, drugs |-> codes, targetLineTransition |-> transition]

\* lines 54-60
DefaultOntology == JsonValue("object", <<"Unknown">>, << <<>> >>, <<"1L to 2L">>)

NoOntology == JsonValue("undefined", <<>>, <<>>, <<>>)

\* what JSON.parse can return: the shape asked for, and others
ParsedJson ==
  {JsonValue("object", <<"Breast Cancer">>, << <<"C50%">> >>, <<"1L to 2L">>),
   JsonValue("object", <<>>, <<>>, <<>>),
   JsonValue("null", <<>>, <<>>, <<>>),
   JsonValue("array", <<>>, <<>>, <<>>),
   JsonValue("number", <<>>, <<>>, <<>>)}

EngineDid(kind, value) == [kind |-> kind, value |-> value]

\* generateContent rejects, resolves with empty text, with text that is
\* not JSON, or with JSON text
IntentResponses ==
  {EngineDid("throw", NoOntology), EngineDid("empty", NoOntology),
   EngineDid("garbage", NoOntology)}
    \cup {EngineDid("json", v) : v \in ParsedJson}

\* lines 26-61: the try block and its catch
ParseIntent(resp) ==
  IF resp.kind = "json" THEN resp.value ELSE DefaultOntology

\* a riskScore as JavaScript sees it; classifyPatientRisk line 168 copies
\* the engine's riskScore into the record whatever its type
JsUndefined == [type |-> "undefined", n |-> 0]

JsNumber(n) == [type |-> "number", n |-> n]

JsString == [type |-> "string", n |-> 0]

\* line 218: p.riskScore ? ... : "N/A"
Truthy(v) == v.type = "string" \/ (v.type = "number" /\ v.n /= 0)

\* line 218: p.riskScore.toFixed(2) is a TypeError unless riskScore is a number
ToFixedThrows(v) == v.type /= "number"

\* lines 210-222: building dataContext throws
DataContextThrows(ps) ==
  \E i \in 1..Len(ps) : Truthy(ps[i].riskScore) /\ ToFixedThrows(ps[i].riskScore)

AskedSubjects ==
  {[id |-> "a", riskScore |-> v] : v \in {JsUndefined, JsNumber(0), JsNumber(700), JsString}}

AskedLists == SeqsUpTo(AskedSubjects, MaxAsked)

\* line 252
NoAnswerText == "I could not generate an answer based on the data."

\* line 255
Apology == "Sorry, I encountered an error while processing your question."

EngineAnswer == "an answer"

QaResponses == {"throw", "empty", EngineAnswer}

\* lines 244-256: the try block and its catch
AnswerOf(resp) ==
  CASE resp = "throw" -> Apology
    [] resp = "empty" -> NoAnswerText
    [] OTHER -> resp

(* ------------------------- CohortConfigurator -------------------------- *)
\* src/types.ts lines 154-158: the disease presets the app starts with
DefaultPresets ==
  { [defaultLookbackMonths |-> 12, defaultPredictionWindowMonths |-> 6,
     defaultMinClaims |-> 2],
    [defaultLookbackMonths |-> 24, defaultPredictionWindowMonths |-> 12,
     defaultMinClaims |-> 4],
    [defaultLookbackMonths |-> 6, defaultPredictionWindowMonths |-> 3,
     defaultMinClaims |-> 1] }

\* the value of a digit character
DigitValue(c) == CHOOSE d \in 0..9 : DigitChars[d + 1] = c

IsDigit(c) == \E d \in 0..9 : DigitChars[d + 1] = c

\* the longest prefix of digits of t
RECURSIVE DigitPrefix(_)
DigitPrefix(t) ==
  IF t = <<>> \/ ~IsDigit(t[1]) THEN <<>>
  ELSE <<t[1]>> \o DigitPrefix(Tail(t))

\* the number a sequence of digits writes
RECURSIVE DecimalValue(_)
DecimalValue(ds) ==
  IF ds = <<>> THEN 0
  ELSE DecimalValue(SubSeq(ds, 1, Len(ds) - 1)) * 10 + DigitValue(ds[Len(ds)])

\* parseInt: an optional sign, then the longest run of digits; <<>> is NaN
ParseInt(t) ==
  LET neg  == t /= <<>> /\ t[1] = "-"
      body == IF neg THEN Tail(t) ELSE t
      ds   == DigitPrefix(body)
  IN  IF ds = <<>> THEN <<>>
      ELSE <<IF neg THEN 0 - DecimalValue(ds) ELSE DecimalValue(ds)>>

\* src/unnamed/part_001 lines 551, 568, 595: parseInt(e.target.value) || 0
ParseIntOrZero(t) == IF ParseInt(t) = <<>> THEN 0 ELSE ParseInt(t)[1]

\* the characters typed into a number field
FieldChars == {"-", "0", "7"}

\* e.target.value of a number input: empty, or an integer with its sign
FieldTexts ==
  {t \in SeqsUpTo(FieldChars, MaxDigits) :
     /\ \A i \in 1..Len(t) : t[i] = "-" => i = 1
     /\ t /= <<"-">>}

(* --------------------------------- App --------------------------------- *)
\* src/types.ts line 128: a value of the patients state is the data set it
\* came from (0 for the empty list) and, once classifyPatientRisk returned
\* it, the ontology it was scored with
PatientsOf(data, scoredWith) == [data |-> data, scoredWith |-> scoredWith]

\* line 128 and line 171: []
NoPatients == PatientsOf(0, <<>>)

\* the data sets FileUpload delivers
DataSets == 1..MaxInputs

\* the mappings QueryBuilder delivers
Mappings == 1..MaxInputs

\* the configurations CohortConfigurator delivers
AppConfigs == {[lookbackMonths |-> 6, trainTestSplit |-> s] : s \in {20, 50}}

(* ------------------------------ actions -------------------------------- *)
\* the configurator is not on screen
FormIdle ==
  /\ formPc = "idle"
  /\ formLookback = 6
  /\ formWindow = 3
  /\ formMinClaims = 2
  /\ formSplit = 20
  /\ handedConfig = <<>>

\* the app shows the study dashboard and awaits nothing
AppIdle ==
  /\ currentStep = "STUDY_DASHBOARD"
  /\ appPatients = NoPatients
  /\ appOntology = <<>>
  /\ cohortConfig = <<>>
  /\ pending = <<>>

\* the dashboard is not on screen
DashIdle ==
  /\ dashPc = "idle"
  /\ dashPatients = <<>>
  /\ metrics = ZeroMetrics
  /\ avgMonths = AvgMonthsByRisk(<<>>)
  /\ highShare = Zero

\* no file has been chosen
UploadIdle ==
  /\ upPc = "idle"
  /\ file = CsvFile(<<>>)
  /\ upError = NoError
  /\ headers = <<>>
  /\ columns = NoColumns
  /\ loaded = <<>>
  /\ loadedCalls = 0

\* neither of the two other engine operations has been called
OpsIdle ==
  /\ intentPc = "idle"
  /\ intentResponse = EngineDid("none", NoOntology)
  /\ ontology = NoOntology
  /\ qaPc = "idle"
  /\ qaPatients = <<>>
  /\ qaResponse = "none"
  /\ answer = "none"

Init ==
  /\ FormIdle
  /\ AppIdle
  /\ DashIdle
  /\ UploadIdle
  /\ OpsIdle
  /\ pc = "idle"
  /\ patients \in Inputs
  /\ config \in Configs
  /\ shuffled = <<>>
  /\ splitIndex = 0
  /\ sent = <<>>
  /\ requests = 0
  /\ response = NoResponse
  /\ path = "none"
  /\ result = <<>>

\* lines 65-155: classifyPatientRisk up to the await
Classify ==
  /\ pc = "idle"
  /\ \E sh \in Shuffles(Eligible(patients)) :
       /\ shuffled' = sh
       /\ patients' = CallerPatients(patients, sh)
       /\ splitIndex' = SplitIndex(Len(sh), config)
       /\ sent' = Features(ProcessedBatch(sh))
  /\ requests' = GenerateContentCalls(requests)
  /\ pc' = "awaiting"
  /\ UNCHANGED <<config, response, path, result>>
  /\ UNCHANGED <<dashVars, uploadVars, opsVars, formVars, appVars>>

\* generateContent rejects: lines 194-197
EngineThrows ==
  /\ pc = "awaiting"
  /\ response' = Thrown
  /\ path' = "catch"
  /\ result' = TotalFallback(patients)
  /\ requests' = CallsOnCatch(requests)
  /\ pc' = "done"
  /\ UNCHANGED <<patients, config, shuffled, splitIndex, sent>>
  /\ UNCHANGED <<dashVars, uploadVars, opsVars, formVars, appVars>>

\* generateContent resolves: lines 157-197
EngineReturns ==
  /\ pc = "awaiting"
  /\ \E resp \in Responses, seed \in 0..(RandDen - 1) :
       LET parsed == ParsePredictions(resp)
       IN  /\ response' = resp
           /\ IF TryThrows(shuffled, parsed)
              THEN /\ path' = "catch"
                   /\ result' = TotalFallback(patients)
                   /\ requests' = CallsOnCatch(requests)
              ELSE /\ path' = "try"
                   /\ result' = MapShuffled(shuffled, parsed.items, config,
                                            splitIndex, seed, 1, 0)
                   /\ requests' = requests
  /\ pc' = "done"
  /\ UNCHANGED <<patients, config, shuffled, splitIndex, sent>>
  /\ UNCHANGED <<dashVars, uploadVars, opsVars, formVars, appVars>>

Next == Classify \/ EngineThrows \/ EngineReturns

Spec == Init /\ [][Next]_vars

(* ------------- classification at every slider position ---------------- *)
\* src/unnamed/part_001 lines 514-520: the range input, 0.1 to 0.5 in
\* steps of 0.05, in percent
SliderSplits == {10 + 5 * k : k \in 0..8}

\* lists of eligible subjects: the short ones and one longer than the batch
FillerLists ==
  {[i \in 1..n |-> Filler] : n \in 1..MaxFill}
    \cup {[i \in 1..(batchSize + 1) |-> Filler]}

InitSplits ==
  /\ FormIdle
  /\ AppIdle
  /\ DashIdle
  /\ UploadIdle
  /\ OpsIdle
  /\ pc = "idle"
  /\ patients \in FillerLists
  /\ config \in {[lookbackMonths |-> 6, trainTestSplit |-> t] : t \in SliderSplits}
  /\ shuffled = <<>>
  /\ splitIndex = 0
  /\ sent = <<>>
  /\ requests = 0
  /\ response = NoResponse
  /\ path = "none"
  /\ result = <<>>

SpecSplits == InitSplits /\ [][Next]_vars

(* ---------------------- the dashboard on its own ----------------------- *)
\* no classification is running
ClassifyIdle ==
  /\ pc = "idle"
  /\ patients = <<>>
  /\ config = [lookbackMonths |-> 6, trainTestSplit |-> 20]
  /\ shuffled = <<>>
  /\ splitIndex = 0
  /\ sent = <<>>
  /\ requests = 0
  /\ response = NoResponse
  /\ path = "none"
  /\ result = <<>>

InitDash ==
  /\ FormIdle
  /\ AppIdle
  /\ ClassifyIdle
  /\ UploadIdle
  /\ OpsIdle
  /\ dashPc = "mounted"
  /\ dashPatients \in DashInputs
  /\ metrics = ZeroMetrics
  /\ avgMonths = AvgMonthsByRisk(<<>>)
  /\ highShare = Zero

\* AnalysisDashboard.tsx lines 40-82 and 216: one render
RenderDashboard ==
  /\ dashPc = "mounted"
  /\ metrics' = ValidationMetrics(dashPatients)
  /\ avgMonths' = AvgMonthsByRisk(dashPatients)
  /\ highShare' = HighRiskShare(dashPatients)
  /\ dashPc' = "rendered"
  /\ UNCHANGED <<dashPatients, classifyVars, uploadVars, opsVars, formVars, appVars>>

NextDash == RenderDashboard

SpecDash == InitDash /\ [][NextDash]_vars

(* ----------------------- the upload on its own ------------------------- *)
InitUpload ==
  /\ FormIdle
  /\ AppIdle
  /\ ClassifyIdle
  /\ DashIdle
  /\ OpsIdle
  /\ upPc = "idle"
  /\ file \in Files
  /\ upError = NoError
  /\ headers = <<>>
  /\ columns = NoColumns
  /\ loaded = <<>>
  /\ loadedCalls = 0

\* FileUpload.tsx lines 49-56, 129: processFile up to readAsText
ProcessFile ==
  /\ upPc = "idle"
  /\ IF file.csv
     THEN /\ upError' = NoError
          /\ upPc' = "reading"
     ELSE /\ upError' = UploadError("type", <<>>)
          /\ upPc' = "failed"
  /\ UNCHANGED <<file, headers, columns, loaded, loadedCalls, classifyVars, dashVars, opsVars, formVars, appVars>>

\* lines 57-127: reader.onload
OnLoad ==
  /\ upPc = "reading"
  /\ LET lines == Split(file.text, "\n")
     IN  IF Len(lines) < 2
         THEN /\ upError' = UploadError("empty", <<>>)
              /\ upPc' = "failed"
              /\ UNCHANGED <<headers, columns, loaded, loadedCalls>>
         ELSE LET headerLine == IF lines[1] /= <<>> /\ lines[1][1] = BOM
                                THEN Tail(lines[1]) ELSE lines[1]
                  hs == [i \in 1..Len(Split(headerLine, ",")) |->
                           Trim(Split(headerLine, ",")[i])]
                  cols == ResolveColumns(hs, ColumnKeywords)
                  missing == Missing(cols, ColumnKeywords)
              IN  /\ headers' = hs
                  /\ columns' = cols
                  /\ IF Len(missing) > 0
                     THEN /\ upError' = UploadError("mapping", missing)
                          /\ upPc' = "failed"
                          /\ UNCHANGED <<loaded, loadedCalls>>
                     ELSE /\ loaded' = ParseRows(DataLines(lines), 0, cols)
                          /\ loadedCalls' = loadedCalls + 1
                          /\ upPc' = "loaded"
                          /\ UNCHANGED upError
  /\ UNCHANGED <<file, classifyVars, dashVars, opsVars, formVars, appVars>>

\* line 128: reader.onerror
OnReadError ==
  /\ upPc = "reading"
  /\ upError' = UploadError("read", <<>>)
  /\ upPc' = "failed"
  /\ UNCHANGED <<file, headers, columns, loaded, loadedCalls, classifyVars, dashVars, opsVars, formVars, appVars>>

NextUpload == ProcessFile \/ OnLoad \/ OnReadError

SpecUpload == InitUpload /\ [][NextUpload]_vars

(* ------------- the two other engine operations on their own ------------ *)
InitOps ==
  /\ FormIdle
  /\ AppIdle
  /\ ClassifyIdle
  /\ DashIdle
  /\ UploadIdle
  /\ intentPc = "idle"
  /\ intentResponse = EngineDid("none", NoOntology)
  /\ ontology = NoOntology
  /\ qaPc = "idle"
  /\ qaPatients \in AskedLists
  /\ qaResponse = "none"
  /\ answer = "none"

\* geminiService.ts lines 7-62, with what the engine does as the input
ParseResearchIntent ==
  /\ intentPc = "idle"
  /\ \E resp \in IntentResponses :
       /\ intentResponse' = resp
       /\ ontology' = ParseIntent(resp)
  /\ intentPc' = "done"
  /\ UNCHANGED <<qaPc, qaPatients, qaResponse, answer>>
  /\ UNCHANGED <<classifyVars, dashVars, uploadVars, formVars, appVars>>

\* lines 201-257, with what the engine does as the input; dataContext is
\* built before the try, so a throw there rejects the promise and no
\* request is made
QueryAnalysisResults ==
  /\ qaPc = "idle"
  /\ IF DataContextThrows(qaPatients)
     THEN /\ qaPc' = "rejected"
          /\ UNCHANGED <<qaResponse, answer>>
     ELSE /\ \E resp \in QaResponses :
               /\ qaResponse' = resp
               /\ answer' = AnswerOf(resp)
          /\ qaPc' = "done"
  /\ UNCHANGED <<intentPc, intentResponse, ontology, qaPatients>>
  /\ UNCHANGED <<classifyVars, dashVars, uploadVars, formVars, appVars>>

NextOps == ParseResearchIntent \/ QueryAnalysisResults

SpecOps == InitOps /\ [][NextOps]_vars

(* --------------------- the configurator on its own --------------------- *)
\* src/unnamed/part_001 lines 243-251: the state a mounted configurator
\* starts with
InitConfig ==
  /\ ClassifyIdle
  /\ DashIdle
  /\ UploadIdle
  /\ OpsIdle
  /\ AppIdle
  /\ formPc = "mounted"
  /\ formLookback = 6
  /\ formWindow = 3
  /\ formMinClaims = 2
  /\ formSplit = 20
  /\ handedConfig = <<>>

\* lines 253-269: the effect after mounting, a preset matches the disease
ApplyPreset ==
  /\ formPc = "mounted"
  /\ \E preset \in DefaultPresets :
       /\ formLookback' = preset.defaultLookbackMonths
       /\ formWindow' = preset.defaultPredictionWindowMonths
       /\ formMinClaims' = preset.defaultMinClaims
  /\ formPc' = "editing"
  /\ UNCHANGED <<formSplit, handedConfig>>
  /\ UNCHANGED <<classifyVars, dashVars, uploadVars, opsVars, appVars>>

\* lines 253-269: the effect after mounting, no preset matches
NoPreset ==
  /\ formPc = "mounted"
  /\ formPc' = "editing"
  /\ UNCHANGED <<formLookback, formWindow, formMinClaims, formSplit, handedConfig>>
  /\ UNCHANGED <<classifyVars, dashVars, uploadVars, opsVars, appVars>>

\* lines 547-552: onChange of the lookback field
SetLookbackMonths ==
  /\ formPc = "editing"
  /\ \E t \in FieldTexts : formLookback' = ParseIntOrZero(t)
  /\ UNCHANGED <<formPc, formWindow, formMinClaims, formSplit, handedConfig>>
  /\ UNCHANGED <<classifyVars, dashVars, uploadVars, opsVars, appVars>>

\* lines 564-569: onChange of the prediction window field
SetPredictionWindowMonths ==
  /\ formPc = "editing"
  /\ \E t \in FieldTexts : formWindow' = ParseIntOrZero(t)
  /\ UNCHANGED <<formPc, formLookback, formMinClaims, formSplit, handedConfig>>
  /\ UNCHANGED <<classifyVars, dashVars, uploadVars, opsVars, appVars>>

\* lines 592-596: onChange of the minimum claims field
SetMinClaimsCount ==
  /\ formPc = "editing"
  /\ \E t \in FieldTexts : formMinClaims' = ParseIntOrZero(t)
  /\ UNCHANGED <<formPc, formLookback, formWindow, formSplit, handedConfig>>
  /\ UNCHANGED <<classifyVars, dashVars, uploadVars, opsVars, appVars>>

\* lines 514-520: onChange of the split slider
SetTrainTestSplit ==
  /\ formPc = "editing"
  /\ \E v \in SliderSplits : formSplit' = v
  /\ UNCHANGED <<formPc, formLookback, formWindow, formMinClaims, handedConfig>>
  /\ UNCHANGED <<classifyVars, dashVars, uploadVars, opsVars, appVars>>

\* lines 312-321: the Run button hands the fields on as they stand
HandleSubmit ==
  /\ formPc = "editing"
  /\ handedConfig' = << [lookbackMonths |-> formLookback,
                         predictionWindowMonths |-> formWindow,
                         minClaimsCount |-> formMinClaims,
                         trainTestSplit |-> formSplit] >>
  /\ formPc' = "submitted"
  /\ UNCHANGED <<formLookback, formWindow, formMinClaims, formSplit>>
  /\ UNCHANGED <<classifyVars, dashVars, uploadVars, opsVars, appVars>>

NextConfig ==
  \/ ApplyPreset
  \/ NoPreset
  \/ SetLookbackMonths
  \/ SetPredictionWindowMonths
  \/ SetMinClaimsCount
  \/ SetTrainTestSplit
  \/ HandleSubmit

SpecConfig == InitConfig /\ [][NextConfig]_vars

(* ---------------------------- the app's flow --------------------------- *)
\* src/types.ts lines 125-130: the state App starts with
InitApp ==
  /\ ClassifyIdle
  /\ DashIdle
  /\ UploadIdle
  /\ OpsIdle
  /\ FormIdle
  /\ AppIdle

\* lines 168-175, offered by StudyDashboard (lines 355-363)
HandleNewExperiment ==
  /\ currentStep = "STUDY_DASHBOARD"
  /\ appPatients' = NoPatients
  /\ appOntology' = <<>>
  /\ cohortConfig' = <<>>
  /\ currentStep' = "UPLOAD"
  /\ UNCHANGED pending
  /\ UNCHANGED <<classifyVars, dashVars, uploadVars, opsVars, formVars>>

\* lines 192-195, called by FileUpload at step UPLOAD
HandleDataLoaded ==
  /\ currentStep = "UPLOAD"
  /\ \E data \in DataSets : appPatients' = PatientsOf(data, <<>>)
  /\ currentStep' = "QUERY"
  /\ UNCHANGED <<appOntology, cohortConfig, pending>>
  /\ UNCHANGED <<classifyVars, dashVars, uploadVars, opsVars, formVars>>

\* lines 197-200, called by QueryBuilder at step QUERY
HandleOntologyReady ==
  /\ currentStep = "QUERY"
  /\ \E mapping \in Mappings : appOntology' = <<mapping>>
  /\ currentStep' = "CONFIGURE"
  /\ UNCHANGED <<appPatients, cohortConfig, pending>>
  /\ UNCHANGED <<classifyVars, dashVars, uploadVars, opsVars, formVars>>

\* lines 202-207: handleConfigReady up to its await, called by
\* CohortConfigurator (rendered at step CONFIGURE with an ontology, line
\* 394); the call takes the patients and ontology of this render
HandleConfigReady ==
  /\ currentStep = "CONFIGURE"
  /\ appOntology /= <<>>
  /\ Len(pending) < MaxPending
  /\ \E c \in AppConfigs : cohortConfig' = <<c>>
  /\ currentStep' = "ANALYSIS"
  /\ pending' = Append(pending, [data |-> appPatients.data,
                                  ontology |-> appOntology[1]])
  /\ UNCHANGED <<appPatients, appOntology>>
  /\ UNCHANGED <<classifyVars, dashVars, uploadVars, opsVars, formVars>>

\* lines 208-210: an awaited classification resolves
ClassificationResolves ==
  /\ \E i \in 1..Len(pending) :
       /\ appPatients' = PatientsOf(pending[i].data, <<pending[i].ontology>>)
       /\ pending' = SubSeq(pending, 1, i - 1) \o SubSeq(pending, i + 1, Len(pending))
  /\ currentStep' = "RESULTS"
  /\ UNCHANGED <<appOntology, cohortConfig>>
  /\ UNCHANGED <<classifyVars, dashVars, uploadVars, opsVars, formVars>>

\* line 279 (Back to Dashboard), line 315 (the logo), line 351 (closing the
\* admin panel)
BackToDashboard ==
  /\ currentStep /= "STUDY_DASHBOARD"
  /\ currentStep' = "STUDY_DASHBOARD"
  /\ UNCHANGED <<appPatients, appOntology, cohortConfig, pending>>
  /\ UNCHANGED <<classifyVars, dashVars, uploadVars, opsVars, formVars>>

\* lines 325-333: the Admin button, shown at every other step
OpenAdmin ==
  /\ currentStep /= "ADMIN"
  /\ currentStep' = "ADMIN"
  /\ UNCHANGED <<appPatients, appOntology, cohortConfig, pending>>
  /\ UNCHANGED <<classifyVars, dashVars, uploadVars, opsVars, formVars>>

NextApp ==
  \/ HandleNewExperiment
  \/ HandleDataLoaded
  \/ HandleOntologyReady
  \/ HandleConfigReady
  \/ ClassificationResolves
  \/ BackToDashboard
  \/ OpenAdmin

SpecApp == InitApp /\ [][NextApp]_vars

(* ============================== claims ================================= *)
\* the subjects of the input with monthsOnCurrentTherapy >= 1, by position
EligibleIdx == {i \in 1..Len(patients) : patients[i].monthsOnCurrentTherapy >= 1}

\* result is the input list, in input order, every record 0.1 / Low / TRAIN
IsTotalFallbackResult ==
  /\ Len(result) = Len(patients)
  /\ \A i \in 1..Len(result) :
       /\ result[i].id = patients[i].id
       /\ result[i].monthsOnCurrentTherapy = patients[i].monthsOnCurrentTherapy
       /\ result[i].riskScore = <<100>>
       /\ result[i].riskCategory = "Low"
       /\ result[i].split = "TRAIN"

\* some entry of the engine's array carries this id
InEngineResult(id) ==
  \E j \in 1..Len(response.items) :
    ~response.items[j].isNull /\ response.items[j].id = id

\* C1: when the engine call throws or its text is not parseable JSON, the
\* call returns (it does not raise) one record per input subject, in input
\* order, eligible or not, each with riskScore 0.1, Low, TRAIN.
C1_TotalFallbackOnFailure ==
  (pc = "done" /\ response.kind \in {"throw", "garbage"}) =>
    (path = "catch" /\ IsTotalFallbackResult)

C1_Witness ==
  /\ pc = "done"
  /\ response.kind = "garbage"
  /\ Len(result) = 2
  /\ result[1].monthsOnCurrentTherapy = 0
  /\ result[2].monthsOnCurrentTherapy = 7
  /\ result[1].split = "TRAIN"

\* the payloads C2 speaks of: empty text, or anything that is not a
\* non-empty array of {id, riskScore}
EmptyOrMalformed ==
  \/ response.kind \in {"empty", "null", "object", "scalar"}
  \/ /\ response.kind = "array"
     /\ \/ response.items = <<>>
        \/ \E j \in 1..Len(response.items) :
             response.items[j].isNull \/ response.items[j].riskScore = <<>>

NullReached ==
  \E i \in EligibleIdx, j \in 1..Len(response.items) :
    /\ response.items[j].isNull
    /\ \A k \in 1..(j - 1) : response.items[k].id /= patients[i].id

C3_CategoryOfScore ==
  pc = "done" =>
    \A i \in 1..Len(result) :
      LET s == result[i].riskScore
          c == result[i].riskCategory
      IN  /\ (s /= <<>> /\ s[1] > 700) => c = "High"
          /\ (s /= <<>> /\ s[1] > 400 /\ s[1] <= 700) => c = "Medium"
          /\ (s /= <<>> /\ s[1] <= 400) => c = "Low"
          /\ s = <<>> => c = "Low"

C3_Witness ==
  /\ pc = "done"
  /\ path = "try"
  /\ \E i, j \in 1..Len(result) :
       /\ result[i].riskScore = <<700>> /\ result[i].riskCategory = "Medium"
       /\ result[j].riskScore = <<400>> /\ result[j].riskCategory = "Low"

\* the number of records of a list with the given id and months
CountOf(s, id, m) ==
  Cardinality({i \in 1..Len(s) : s[i].id = id /\ s[i].monthsOnCurrentTherapy = m})

\* C4: on the success path, with N eligible subjects and
\* splitIndex = floor(N * (1 - trainTestSplit)), every eligible subject is
\* once in the output, positions [0, splitIndex) are TRAIN and
\* [splitIndex, N) are TEST, so |TRAIN| = splitIndex and |TRAIN| + |TEST| = N.
C4_SplitPartition ==
  (pc = "done" /\ path = "try") =>
    LET N     == Cardinality(EligibleIdx)
        sIdx  == (N * (100 - config.trainTestSplit)) \div 100
        train == {i \in 1..Len(result) : result[i].split = "TRAIN"}
        test  == {i \in 1..Len(result) : result[i].split = "TEST"}
    IN  /\ Len(result) = N
        /\ train = 1..sIdx
        /\ test = (sIdx + 1)..N
        /\ Cardinality(train) = sIdx
        /\ Cardinality(train) + Cardinality(test) = N
        /\ \A i \in 1..N :
             /\ result[i].id = shuffled[i].id
             /\ result[i].monthsOnCurrentTherapy = shuffled[i].monthsOnCurrentTherapy
        /\ \A i \in 1..Len(patients) :
             patients[i].monthsOnCurrentTherapy >= 1 =>
               CountOf(result, patients[i].id, patients[i].monthsOnCurrentTherapy)
                 = CountOf(patients, patients[i].id, patients[i].monthsOnCurrentTherapy)

C4_Witness ==
  /\ pc = "done"
  /\ path = "try"
  /\ Len(patients) = 2
  /\ Len(result) = 2
  /\ config.trainTestSplit = 20
  /\ result[1].split = "TRAIN"
  /\ result[2].split = "TEST"
  /\ result[1].id = patients[2].id
  /\ result[1].id /= result[2].id

\* C5 as claimed: on every path no ineligible subject of the returned
\* collection carries a split or an actualOutcome.
C5_IneligibleNeverSplit ==
  pc = "done" =>
    \A i \in 1..Len(result) :
      result[i].monthsOnCurrentTherapy < 1 =>
        (result[i].split = "unset" /\ result[i].actualOutcome = <<>>)

\* C5 amended: on the success path no ineligible subject is in the returned
\* collection; on neither path does an ineligible subject carry an
\* actualOutcome; on the total-fallback path every ineligible input subject
\* is returned with split TRAIN.
C5_IneligibleOnEachPath ==
  pc = "done" =>
    /\ path = "try" =>
         \A i \in 1..Len(result) : result[i].monthsOnCurrentTherapy >= 1
    /\ \A i \in 1..Len(result) :
         result[i].monthsOnCurrentTherapy < 1 => result[i].actualOutcome = <<>>
    /\ path = "catch" =>
         /\ Len(result) = Len(patients)
         /\ \A i \in 1..Len(patients) :
              patients[i].monthsOnCurrentTherapy < 1 =>
                (result[i].monthsOnCurrentTherapy < 1 /\ result[i].split = "TRAIN")

C5_Witness ==
  /\ pc = "done"
  /\ path = "catch"
  /\ response.kind = "throw"
  /\ \E i, j \in 1..Len(result) :
       /\ result[i].monthsOnCurrentTherapy < 1 /\ result[i].split = "TRAIN"
       /\ result[j].monthsOnCurrentTherapy >= 1

\* C6 as claimed: every returned record has a riskScore within [0, 1],
\* whatever numeric riskScore the engine returns.
C6_ScoreWithinUnitInterval ==
  pc = "done" =>
    \A i \in 1..Len(result) :
      result[i].riskScore /= <<>> =>
        (result[i].riskScore[1] >= 0 /\ result[i].riskScore[1] <= 1000)

C8_PartialFallbackScore ==
  (pc = "done" /\ path = "try") =>
    \A i \in 1..Len(result) :
      ~InEngineResult(result[i].id) =>
        LET s    == result[i].riskScore
            m    == result[i].monthsOnCurrentTherapy
            base == IF m > config.lookbackMonths THEN 400 ELSE 50
        IN  /\ s /= <<>>
            /\ m > config.lookbackMonths => (s[1] >= 250 /\ s[1] <= 550)
            /\ m <= config.lookbackMonths => (s[1] >= 10 /\ s[1] <= 200)
            /\ \E noise \in (0 - 150)..150 :
                 s[1] = (IF base + noise < 10 THEN 10
                         ELSE IF base + noise > 990 THEN 990 ELSE base + noise)

C8_Witness ==
  /\ pc = "done"
  /\ path = "try"
  /\ response.kind = "array"
  /\ response.items /= <<>>
  /\ \E i, j \in 1..Len(result) :
       /\ ~InEngineResult(result[i].id)
       /\ result[i].monthsOnCurrentTherapy = config.lookbackMonths
       /\ result[i].riskScore = <<10>>
       /\ ~InEngineResult(result[j].id)
       /\ result[j].monthsOnCurrentTherapy > config.lookbackMonths
       /\ result[j].riskScore = <<475>>

\* the riskScore of the first entry of the engine's array with this id
FirstEngineScore(id) ==
  LET j == CHOOSE j \in 1..Len(response.items) :
             /\ response.items[j].id = id
             /\ \A k \in 1..(j - 1) : response.items[k].id /= id
  IN  response.items[j].riskScore

\* a score the partial fallback can give to a subject with these months
IsPartialScore(s, m) ==
  /\ s /= <<>>
  /\ IF m > config.lookbackMonths
     THEN s[1] >= 250 /\ s[1] <= 550
     ELSE s[1] >= 10 /\ s[1] <= 200

\* no other subject of the input has this id
UniqueId(id) == Cardinality({k \in 1..Len(patients) : patients[k].id = id}) = 1

\* C9 as claimed: on the success path a subject gets the engine's score iff
\* the result has an entry with its id; a subject that was not in the batch
\* sent, or whose id is missing from the result, gets the partial fallback.
\* Stated for the subjects whose id no other subject shares and for arrays
\* whose entries all carry a numeric riskScore.
C9_EngineScoreOnlyForBatch ==
  (/\ pc = "done"
   /\ path = "try"
   /\ \A j \in 1..Len(response.items) : response.items[j].riskScore /= <<>>) =>
    \A i \in 1..Len(result) :
      UniqueId(result[i].id) =>
        IF i <= Len(sent) /\ InEngineResult(result[i].id)
        THEN result[i].riskScore = FirstEngineScore(result[i].id)
        ELSE IsPartialScore(result[i].riskScore, result[i].monthsOnCurrentTherapy)

\* C10 as claimed: every subject that receives a riskScore also receives an
\* actualOutcome, on the success path and on the total-fallback path alike.
C10_OutcomeWheneverScored ==
  pc = "done" =>
    \A i \in 1..Len(result) :
      result[i].riskScore /= <<>> => result[i].actualOutcome /= <<>>

\* C10 amended: on the success path every returned record carries an
\* actualOutcome, the value of one draw r < score (true when the score is at
\* least 1, false when the score is undefined); on the total-fallback path
\* no record receives an actualOutcome.
C10_OutcomeOnSuccessPathOnly ==
  pc = "done" =>
    /\ path = "try" =>
         \A i \in 1..Len(result) :
           LET s == result[i].riskScore
               o == result[i].actualOutcome
           IN  /\ o \in {<<TRUE>>, <<FALSE>>}
               /\ (s /= <<>> /\ s[1] >= 1000) => o = <<TRUE>>
               /\ s = <<>> => o = <<FALSE>>
               /\ s /= <<>> =>
                    \E r \in 0..(RandDen - 1) : o[1] = (r * 1000 < s[1] * RandDen)
    /\ path = "catch" =>
         /\ Len(result) = Len(patients)
         /\ \A i \in 1..Len(result) :
              result[i].riskScore = <<100>> /\ result[i].actualOutcome = <<>>

C10_Witness ==
  /\ pc = "done"
  /\ path = "try"
  /\ \E i, j \in 1..Len(result) :
       /\ result[i].riskScore = <<1500>> /\ result[i].actualOutcome = <<TRUE>>
       /\ result[j].riskScore = <<250>> /\ result[j].actualOutcome = <<FALSE>>

\* the TEST records of the dashboard's list with this prediction and outcome
TestCount(pos, act) ==
  Cardinality({i \in 1..Len(dashPatients) :
    /\ dashPatients[i].split = "TEST"
    /\ (dashPatients[i].riskScore /= <<>> /\ dashPatients[i].riskScore[1] > 500) = pos
    /\ (dashPatients[i].actualOutcome = <<TRUE>>) = act})

TestSize == Cardinality({i \in 1..Len(dashPatients) : dashPatients[i].split = "TEST"})

\* C11: the metrics count only the subjects with split TEST, a subject is
\* predicted positive iff riskScore > 0.5 (0.5 itself is negative), each
\* TEST subject is in exactly one of tp / fp / fn / tn, so they add up to
\* |TEST|; the example set gives tp = fp = fn = tn = 1.
C11_ConfusionCounts ==
  dashPc = "rendered" =>
    /\ metrics.tp = TestCount(TRUE, TRUE)
    /\ metrics.fp = TestCount(TRUE, FALSE)
    /\ metrics.fn = TestCount(FALSE, TRUE)
    /\ metrics.tn = TestCount(FALSE, FALSE)
    /\ metrics.tp + metrics.fp + metrics.fn + metrics.tn = TestSize
    /\ dashPatients = ExampleTest =>
         (metrics.tp = 1 /\ metrics.fp = 1 /\ metrics.fn = 1 /\ metrics.tn = 1)

C11_Witness ==
  /\ dashPc = "rendered"
  /\ Len(dashPatients) = 2
  /\ dashPatients[1].split = "TEST" /\ dashPatients[1].riskScore = <<500>>
  /\ dashPatients[1].actualOutcome = <<TRUE>>
  /\ dashPatients[2].split = "TRAIN" /\ dashPatients[2].riskScore = <<800>>
  /\ metrics.fn = 1
  /\ metrics.tp = 0

\* C12: accuracy = (tp + tn) / |TEST|, precision = tp / (tp + fp) or 0 when
\* tp + fp = 0, recall = tp / (tp + fn) or 0 when tp + fn = 0; with an empty
\* TEST set every metric is 0; no ratio has a zero denominator.
C12_MetricRatios ==
  dashPc = "rendered" =>
    LET tp == metrics.tp
        fp == metrics.fp
        fn == metrics.fn
        tn == metrics.tn
    IN  /\ metrics.accuracy.den > 0
        /\ metrics.precision.den > 0
        /\ metrics.recall.den > 0
        /\ TestSize > 0 =>
             metrics.accuracy.num * TestSize = (tp + tn) * metrics.accuracy.den
        /\ tp + fp > 0 =>
             metrics.precision.num * (tp + fp) = tp * metrics.precision.den
        /\ tp + fp = 0 => metrics.precision.num = 0
        /\ tp + fn > 0 =>
             metrics.recall.num * (tp + fn) = tp * metrics.recall.den
        /\ tp + fn = 0 => metrics.recall.num = 0
        /\ TestSize = 0 =>
             /\ metrics.accuracy.num = 0
             /\ metrics.precision.num = 0
             /\ metrics.recall.num = 0
             /\ tp = 0 /\ fp = 0 /\ tn = 0 /\ fn = 0
        /\ dashPatients = ExampleTest =>
             /\ 2 * metrics.accuracy.num = metrics.accuracy.den
             /\ 2 * metrics.precision.num = metrics.precision.den
             /\ 2 * metrics.recall.num = metrics.recall.den

C12_Witness ==
  /\ dashPc = "rendered"
  /\ TestSize = 2
  /\ metrics.tp = 0
  /\ metrics.fp = 0
  /\ metrics.fn = 1
  /\ metrics.tn = 1
  /\ metrics.precision = Zero
  /\ 2 * metrics.accuracy.num = metrics.accuracy.den

\* the header line has been read and the columns resolved
HeadersRead == Len(headers) > 0

\* the header names as the search compares them
NormHeaders == [i \in 1..Len(headers) |-> Normalize(headers[i])]

\* header i (from 0) of nh matches keyword k of kws in tier t
MatchAt(nh, t, i, k, kws) ==
  CASE t = 1 -> nh[i + 1] = kws[k]
    [] t = 2 -> StartsWith(nh[i + 1], kws[k])
    [] t = 3 -> Includes(nh[i + 1], kws[k])

\* some header of nh matches some keyword of kws in tier t
TierMatches(nh, t, kws) ==
  \E i \in 0..(Len(nh) - 1), k \in 1..Len(kws) : MatchAt(nh, t, i, k, kws)

\* r is what the tiered search over kws has to give: unresolved when no
\* tier matches, else the lowest header that matches, in the first tier with
\* a match, the earliest keyword with a match in that tier
ResolvedAs(r, kws) ==
  LET nh == NormHeaders
      cols == 0..(Len(nh) - 1)
  IN  IF \A t \in 1..3 : ~TierMatches(nh, t, kws)
      THEN r = -1
      ELSE LET t == SetMin({t2 \in 1..3 : TierMatches(nh, t2, kws)})
               k == SetMin({k2 \in 1..Len(kws) :
                              \E i \in cols : MatchAt(nh, t, i, k2, kws)})
           IN  /\ r \in cols
               /\ MatchAt(nh, t, r, k, kws)
               /\ \A i \in 0..(r - 1) : ~MatchAt(nh, t, i, k, kws)

LateExactHeaders == <<<<"P", "a", "t", "i", "e", "n", "t", "_", "N", "a", "m", "e">>, <<"I", "D">>>>

\* C13: findColumnIndex tries exact equality over all keywords, then
\* starts-with over all keywords, then contains; inside a tier the earliest
\* keyword wins and for it the lowest header index; it is unresolved only
\* when no tier matches.  An exact match on a late keyword beats a prefix
\* match on an early one, and Patient_ID, ICD10, NDC, DOS resolve to
\* id 0, diagnosis 1, prescription 2, date 3 with the default keywords.
C13_TieredColumnResolution ==
  HeadersRead =>
    /\ ResolvedAs(columns.id, ColumnKeywords.id)
    /\ ResolvedAs(columns.dx, ColumnKeywords.diagnosis)
    /\ ResolvedAs(columns.date, ColumnKeywords.date)
    /\ headers = LateExactHeaders => columns.id = 1
    /\ headers = ExampleHeaders =>
         columns = [id |-> 0, dx |-> 1, rx |-> 2, date |-> 3]

C13_Witness ==
  /\ headers = LateExactHeaders
  /\ columns.id = 1
  /\ StartsWith(NormHeaders[1], ColumnKeywords.id[1])
  /\ NormHeaders[2] = ColumnKeywords.id[7]

SubstringRxHeaders == <<<<"C", "P", "T">>, <<"M", "y", "_", "R", "x">>>>

\* some header matches some prescription keyword in some tier
PrescriptionMatches ==
  LET nh == NormHeaders
  IN  \E i \in 0..(Len(headers) - 1), k \in 1..Len(ColumnKeywords.prescription) :
        MatchAt(nh, 3, i, k, ColumnKeywords.prescription)

\* C14: the drug column is resolved with the prescription keywords first
\* and with the procedure keywords only if no tier of the prescription set
\* matches; a substring prescription match beats an exact procedure match,
\* and the field is unresolved only if both sets fail.
C14_PrescriptionBeforeProcedure ==
  HeadersRead =>
    /\ PrescriptionMatches =>
         columns.rx /= -1 /\ ResolvedAs(columns.rx, ColumnKeywords.prescription)
    /\ ~PrescriptionMatches => ResolvedAs(columns.rx, ColumnKeywords.procedure)
    /\ headers = SubstringRxHeaders => columns.rx = 1

C14_Witness ==
  /\ headers = SubstringRxHeaders
  /\ columns.rx = 1
  /\ Normalize(headers[1]) = ColumnKeywords.procedure[1]
  /\ upPc = "failed"

\* the canonical fields left unresolved, under the names of the error
Unresolved ==
  {f \in {"Patient ID", "Diagnosis", "Drug/Procedure", "Date"} :
     \/ f = "Patient ID" /\ columns.id = -1
     \/ f = "Diagnosis" /\ columns.dx = -1
     \/ f = "Drug/Procedure" /\ columns.rx = -1
     \/ f = "Date" /\ columns.date = -1}

ConfiguredFor(f) ==
  CASE f = "Patient ID" -> ColumnKeywords.id
    [] f = "Diagnosis" -> ColumnKeywords.diagnosis
    [] f = "Drug/Procedure" -> ColumnKeywords.prescription
    [] f = "Date" -> ColumnKeywords.date

\* C15: if id, diagnosis, drug or date is unresolved the ingestion aborts
\* with no output (nothing emitted, onDataLoaded never called) and the error
\* lists every unresolved field once, each with its first three configured
\* keywords; if all four resolve no mapping error is reported.
C15_MappingErrorAborts ==
  HeadersRead =>
    /\ Unresolved /= {} =>
         /\ upPc = "failed"
         /\ loaded = <<>>
         /\ loadedCalls = 0
         /\ upError.kind = "mapping"
         /\ Len(upError.missing) = Cardinality(Unresolved)
         /\ \A f \in Unresolved :
              \E m \in 1..Len(upError.missing) :
                /\ upError.missing[m].field = f
                /\ upError.missing[m].keywords = SubSeq(ConfiguredFor(f), 1, 3)
    /\ Unresolved = {} =>
         /\ upError = NoError
         /\ upPc = "loaded"
         /\ loadedCalls = 1

C15_Witness ==
  /\ upPc = "failed"
  /\ upError.kind = "mapping"
  /\ columns.id = 0
  /\ Unresolved = {"Drug/Procedure", "Date"}
  /\ upError.missing[1].keywords = <<<<"d", "r", "u", "g">>, <<"r", "x">>, <<"n", "d", "c">>>>
  /\ loadedCalls = 0

\* C18: all subjects produced by one ingestion run have pairwise distinct
\* ids, also when several rows carry the same id value or an id is replaced
\* by the placeholder.
C18_DistinctIds ==
  upPc = "loaded" =>
    \A i, j \in 1..Len(loaded) : i /= j => loaded[i].id /= loaded[j].id

\* the non-blank data lines of the uploaded text
NonBlankRows ==
  SelectSeq(Tail(Split(file.text, "\n")),
            LAMBDA l : \E j \in 1..Len(l) : l[j] \notin {" ", "\r", "\t"})

FieldCount(l) == Cardinality(CsvSeparators(l)) + 1

HighestColumn ==
  SetMax({columns.id, columns.dx, columns.rx, columns.date})

GoodRows == SelectSeq(NonBlankRows, LAMBDA l : FieldCount(l) > HighestColumn)

\* C19: the normalizer emits, in input order, exactly one subject for every
\* non-blank data row with more fields than the highest mapped column index
\* and drops every other row silently; a dropped row never aborts the run
\* and never keeps a later good row from being emitted.
C19_OneSubjectPerGoodRow ==
  (HeadersRead /\ Unresolved = {}) =>
    /\ upPc = "loaded"
    /\ upError = NoError
    /\ Len(loaded) = Len(GoodRows)
    /\ \A k \in 1..Len(loaded) :
         LET v == Values(GoodRows[k])
         IN  /\ loaded[k].diagnosisCode = OrElse(v[columns.dx + 1], Unknown)
             /\ loaded[k].drugId = OrElse(v[columns.rx + 1], Unknown)
             /\ loaded[k].lastVisitDate = OrElse(v[columns.date + 1], Now)
             /\ \/ loaded[k].id = v[columns.id + 1] /\ v[columns.id + 1] /= <<>>
                \/ /\ v[columns.id + 1] = <<>>
                   /\ \E i \in 0..(Len(NonBlankRows) - 1) :
                        /\ NonBlankRows[i + 1] = GoodRows[k]
                        /\ loaded[k].id = Placeholder(i)

C19_Witness ==
  /\ upPc = "loaded"
  /\ Len(headers) = 2
  /\ SubSeq(file.text, Len(file.text) - 4, Len(file.text)) = <<"\n", "a", "\n", ",", "a">>
  /\ Len(NonBlankRows) = 2
  /\ Len(loaded) = 1
  /\ loaded[1].id = <<"P", "-", "1", "0", "0", "1">>
  /\ loaded[1].diagnosisCode = <<"a">>

\* every record of the caller's list is as it was handed in
InputFieldsUnset ==
  \A i \in 1..Len(patients) :
    /\ patients[i].riskScore = <<>>
    /\ patients[i].riskCategory = "unset"
    /\ patients[i].split = "unset"
    /\ patients[i].actualOutcome = <<>>

C20_SingleRequestNoRetry ==
  /\ pc = "idle" => requests = 0
  /\ pc = "awaiting" => requests = 1
  /\ pc = "done" =>
       /\ requests = 1
       /\ path = "catch" =>
            /\ Len(result) = Len(patients)
            /\ \A i \in 1..Len(result) : result[i].riskScore = <<100>>

C20_Witness ==
  /\ pc = "done"
  /\ response = Thrown
  /\ path = "catch"
  /\ requests = 1
  /\ Len(result) = 2
  /\ result[1].riskScore = <<100>>

\* the engine failed, answered nothing, or answered something that is not
\* an ontology mapping
IntentEngineFailed ==
  \/ intentResponse.kind \in {"throw", "empty", "garbage"}
  \/ /\ intentResponse.kind = "json"
     /\ \/ intentResponse.value.json /= "object"
        \/ intentResponse.value.diseaseName = <<>>
        \/ intentResponse.value.icdCodes = <<>>
        \/ intentResponse.value.targetLineTransition = <<>>

\* C16: no engine-backed operation throws or rejects, whatever the engine
\* does and whatever subject list is passed; when the engine throws,
\* returns empty or unparsable text or JSON of the wrong shape, the
\* operation returns its fallback: parseResearchIntent the default
\* ontology, queryAnalysisResults the apology string.
C16_NeverThrowsAlwaysFallback ==
  /\ qaPc /= "rejected"
  /\ (intentPc = "done" /\ IntentEngineFailed) => ontology = DefaultOntology
  /\ (qaPc = "done" /\ qaResponse \in {"throw", "empty"}) => answer = Apology

\* C21: classifyPatientRisk applied to an empty subject list returns an
\* empty list, whether the engine call succeeds or fails; the engine is
\* still called once, with an empty batch.
C21_EmptyInEmptyOut ==
  (patients = <<>> /\ pc /= "idle") =>
    /\ shuffled = <<>>
    /\ sent = <<>>
    /\ pc = "done" => (result = <<>> /\ path \in {"try", "catch"})

C21_Witness ==
  /\ patients = <<>>
  /\ pc = "done"
  /\ path = "catch"
  /\ response = Thrown
  /\ result = <<>>

\* C24: the batch of subjects sent to the engine is taken from the TEST
\* partition: every subject sent is at a position of the shuffled list that
\* is labelled TEST (index >= splitIndex).
C24_BatchFromTestPartition ==
  pc /= "idle" =>
    \A i \in 1..Len(sent) : SplitOf(i - 1, splitIndex) = "TEST"

\* the subjects of the list s with this id and these months
SameSubject(s, i, t, j) ==
  /\ s[i].id = t[j].id
  /\ s[i].monthsOnCurrentTherapy = t[j].monthsOnCurrentTherapy

\* C25: on the success path the output holds exactly the eligible input
\* subjects, one record each, in shuffled order, and no ineligible one; on
\* the total-fallback path it holds every input subject in input order.  The
\* output length is the eligible count on success, the input count on failure.
C25_OutputMembership ==
  pc = "done" =>
    /\ path = "try" =>
         /\ Len(result) = Cardinality(EligibleIdx)
         /\ Len(result) = Len(shuffled)
         /\ \A i \in 1..Len(result) :
              /\ SameSubject(result, i, shuffled, i)
              /\ result[i].monthsOnCurrentTherapy >= 1
              /\ CountOf(result, result[i].id, result[i].monthsOnCurrentTherapy)
                   = Cardinality({k \in EligibleIdx : SameSubject(patients, k, result, i)})
    /\ path = "catch" =>
         /\ Len(result) = Len(patients)
         /\ \A i \in 1..Len(result) : SameSubject(result, i, patients, i)

C25_Witness ==
  /\ pc = "done"
  /\ path = "try"
  /\ Len(patients) = 2
  /\ patients[1].monthsOnCurrentTherapy = 0
  /\ patients[2].monthsOnCurrentTherapy = 7
  /\ Len(result) = 1
  /\ result[1].id = patients[2].id

\* C26: a subject scored by the partial fallback is never High: it is Low
\* when monthsOnCurrentTherapy <= lookbackMonths and Low or Medium otherwise,
\* so a High record of the success path has an engine entry with its id.
C26_PartialFallbackNeverHigh ==
  (pc = "done" /\ path = "try") =>
    \A i \in 1..Len(result) :
      /\ ~InEngineResult(result[i].id) =>
           /\ result[i].riskCategory \in {"Low", "Medium"}
           /\ result[i].monthsOnCurrentTherapy <= config.lookbackMonths =>
                result[i].riskCategory = "Low"
      /\ result[i].riskCategory = "High" => InEngineResult(result[i].id)

C26_Witness ==
  /\ pc = "done"
  /\ path = "try"
  /\ Len(result) = 2
  /\ ~InEngineResult(result[1].id)
  /\ result[1].monthsOnCurrentTherapy > config.lookbackMonths
  /\ result[1].riskCategory = "Medium"
  /\ result[1].riskScore[1] > 400
  /\ result[1].riskScore[1] <= 550
  /\ result[2].riskCategory = "High"
  /\ InEngineResult(result[2].id)

\* C27: on the success path, for every trainTestSplit of the slider and
\* every eligible count N >= 1, splitIndex < N, so the TEST partition is
\* not empty; the TRAIN partition may be empty (N = 1).
C27_TestPartitionNonEmpty ==
  /\ (pc /= "idle" /\ Len(shuffled) >= 1) =>
       (splitIndex >= 0 /\ splitIndex < Len(shuffled))
  /\ (pc = "done" /\ path = "try" /\ Len(result) >= 1) =>
       /\ \E i \in 1..Len(result) : result[i].split = "TEST"
       /\ result[Len(result)].split = "TEST"

C27_Witness ==
  /\ pc = "done"
  /\ path = "try"
  /\ config.trainTestSplit = 10
  /\ Len(result) = 1
  /\ result[1].split = "TEST"
  /\ splitIndex = 0

\* C28: after a total fallback no returned subject has split = TEST, so the
\* validation metrics the dashboard computes on that result are all zero
\* (accuracy, precision, recall, tp, fp, tn, fn), however many subjects
\* there are.
C28_TotalFallbackZeroMetrics ==
  (pc = "done" /\ path = "catch") =>
    LET m == ValidationMetrics(result)
    IN  /\ \A i \in 1..Len(result) : result[i].split /= "TEST"
        /\ m.tp = 0 /\ m.fp = 0 /\ m.tn = 0 /\ m.fn = 0
        /\ m.accuracy.num = 0 /\ m.accuracy.den > 0
        /\ m.precision.num = 0 /\ m.precision.den > 0
        /\ m.recall.num = 0 /\ m.recall.den > 0

C28_Witness ==
  /\ pc = "done"
  /\ path = "catch"
  /\ response.kind = "garbage"
  /\ Len(result) = 31
  /\ result[31].split = "TRAIN"
  /\ ValidationMetrics(result).tn = 0

\* C30: when column resolution succeeds, id, diagnosis, drug and date are
\* mapped to pairwise distinct column indices; no header column serves two
\* fields.
C30_DistinctColumns ==
  (HeadersRead /\ Unresolved = {}) =>
    Cardinality({columns.id, columns.dx, columns.rx, columns.date}) = 4

\* C23: every ratio or average the dashboard computes over a possibly empty
\* collection (metrics over an empty TEST set, average months per risk
\* bucket, share of high-risk subjects) guards the division and yields zero
\* instead of dividing by zero.
C23_DivisionsGuarded ==
  dashPc = "rendered" =>
    /\ metrics.accuracy.den > 0
    /\ metrics.precision.den > 0
    /\ metrics.recall.den > 0
    /\ \A c \in {"High", "Medium", "Low"} : avgMonths[c].den > 0
    /\ highShare.den > 0
    /\ dashPatients = <<>> =>
         /\ highShare.num = 0
         /\ \A c \in {"High", "Medium", "Low"} : avgMonths[c].num = 0

\* C22: every CohortConfig the configurator hands to classifyPatientRisk has
\* lookbackMonths > 0, predictionWindowMonths > 0, minClaimsCount >= 0 and
\* 0.1 <= trainTestSplit <= 0.5, after any sequence of field edits and
\* preset applications.
C22_HandedConfigValid ==
  handedConfig /= <<>> =>
    /\ handedConfig[1].lookbackMonths > 0
    /\ handedConfig[1].predictionWindowMonths > 0
    /\ handedConfig[1].minClaimsCount >= 0
    /\ handedConfig[1].trainTestSplit >= 10
    /\ handedConfig[1].trainTestSplit <= 50

\* C29: in every reachable state, whatever the user does while a
\* classification is pending, the app is at step RESULTS only with a
\* non-null ontology and with the patients of the run on display: a result
\* that resolves after the user left ANALYSIS or reset the flow neither
\* overwrites the patients nor switches the step to RESULTS.
C29_ResultsOnlyOfCurrentRun ==
  currentStep = "RESULTS" =>
    /\ appOntology /= <<>>
    /\ appPatients.scoredWith = appOntology

====
